---- MODULE Spec2Model ----
(***************************************************************************)
(* Model of gbloader::DMG (src/lib.rs): the cartridge-header decoder       *)
(* DMG::new and the thirteen accessors of the decoded header.              *)
(*                                                                         *)
(* A Vec<u8> is a sequence of integers 0..255; Rust index i is element     *)
(* i + 1 of the sequence.  A String is modelled by its UTF-8 bytes, which  *)
(* is how Rust stores it: std::str::from_utf8 validates the bytes and      *)
(* reinterprets them without copying or changing them, and to_string       *)
(* copies them.  An operation that can panic or fail yields a tagged       *)
(* record: tag is "Val"/"Ok" (with val), "Err" (Utf8Error) or "Panic"      *)
(* (index or slice out of range).                                          *)
(***************************************************************************)
EXTENDS Integers, Sequences, FiniteSets, TLC

VARIABLES rom_data, result, ret

vars == <<rom_data, result, ret>>

(***************************************************************************)
(* Bounds of the model.                                                    *)
(***************************************************************************)
\* buffers as short as 0x150 - MaxShort bytes are tried
MaxShort == 6
\* buffers as long as 0x150 + MaxExtra bytes are tried
MaxExtra == 1

(***************************************************************************)
(* Vec<u8> indexing and slicing, with Rust's bounds checks.                *)
(***************************************************************************)
Val(x) == [tag |-> "Val", val |-> x]

Panic == [tag |-> "Panic"]

\* an unchecked read that yields 0 past the end
IndexOrZero(v, i) == IF i < Len(v) THEN Val(v[i + 1]) ELSE Val(0)

\* v[i]
Index(v, i) == IF i < Len(v) THEN Val(v[i + 1]) ELSE Panic

\* v[a..b], the half-open range
Slice(v, a, b) == IF a <= b /\ b <= Len(v) THEN Val(SubSeq(v, a + 1, b)) ELSE Panic

(***************************************************************************)
(* std::str::from_utf8: the validation of the Rust standard library.       *)
(***************************************************************************)
utf8_char_width(b) ==
    IF b < \h80 THEN 1
    ELSE IF b >= \hC2 /\ b <= \hDF THEN 2
    ELSE IF b >= \hE0 /\ b <= \hEF THEN 3
    ELSE IF b >= \hF0 /\ b <= \hF4 THEN 4
    ELSE 0

\* a continuation byte 10xxxxxx
IsCont(b) == b >= \h80 /\ b <= \hBF

\* the byte k places after index, or -1 past the end (the validation fails)
NextByte(v, index, k) == IF index + k < Len(v) THEN v[index + k + 1] ELSE -1

InRange(b, lo, hi) == b >= lo /\ b <= hi

RECURSIVE run_utf8_validation(_, _)
run_utf8_validation(v, index) ==
    IF index >= Len(v) THEN TRUE
    ELSE LET first == v[index + 1]
             w == utf8_char_width(first)
             b1 == NextByte(v, index, 1)
             b2 == NextByte(v, index, 2)
             b3 == NextByte(v, index, 3)
         IN  CASE w = 1 -> run_utf8_validation(v, index + 1)
               [] w = 2 -> IsCont(b1) /\ run_utf8_validation(v, index + 2)
               [] w = 3 ->
                    /\ \/ first = \hE0 /\ InRange(b1, \hA0, \hBF)
                       \/ InRange(first, \hE1, \hEC) /\ InRange(b1, \h80, \hBF)
                       \/ first = \hED /\ InRange(b1, \h80, \h9F)
                       \/ InRange(first, \hEE, \hEF) /\ InRange(b1, \h80, \hBF)
                    /\ IsCont(b2)
                    /\ run_utf8_validation(v, index + 3)
               [] w = 4 ->
                    /\ \/ first = \hF0 /\ InRange(b1, \h90, \hBF)
                       \/ InRange(first, \hF1, \hF3) /\ InRange(b1, \h80, \hBF)
                       \/ first = \hF4 /\ InRange(b1, \h80, \h8F)
                    /\ IsCont(b2)
                    /\ IsCont(b3)
                    /\ run_utf8_validation(v, index + 4)
               [] OTHER -> FALSE

Utf8Error == [tag |-> "Err"]

\* a decoder that accepts 7-bit bytes only
from_ascii(v) ==
    IF \A i \in 1..Len(v) : v[i] < \h80 THEN [tag |-> "Ok", val |-> v] ELSE Utf8Error

\* a lossy decoder that never fails
from_utf8_unchecked(v) == [tag |-> "Ok", val |-> v]

from_utf8(v) ==
    IF run_utf8_validation(v, 0) THEN [tag |-> "Ok", val |-> v] ELSE Utf8Error

(***************************************************************************)
(* DMG::new, field by field.                                               *)
(***************************************************************************)
entry_point == \h100

\* the logo taken one byte longer, 0x104..0x134
nintendo_logo_48(rom_data_) == Slice(rom_data_, \h104, \h134)

nintendo_logo(rom_data_) == Slice(rom_data_, \h104, \h133)

\* the title taken one byte shorter, 0x134..0x143
title_15(rom_data_) ==
    LET s == Slice(rom_data_, \h134, \h143)
    IN  IF s.tag = "Panic" THEN Panic ELSE from_utf8(s.val)

\* std::str::from_utf8(&rom_data[0x134..0x144])
title(rom_data_) ==
    LET s == Slice(rom_data_, \h134, \h144)
    IN  IF s.tag = "Panic" THEN Panic ELSE from_utf8(s.val)

\* the sentinel test inverted
new_license_code_inverted(rom_data_, license_code) ==
    IF license_code # \h33
    THEN LET s == Slice(rom_data_, \h144, \h146)
         IN  IF s.tag = "Panic" THEN Panic ELSE from_utf8(s.val)
    ELSE [tag |-> "Ok", val |-> <<>>]

\* the two bytes decoded before the sentinel is looked at
new_license_code_eager(rom_data_, license_code) ==
    LET s == Slice(rom_data_, \h144, \h146)
        d == IF s.tag = "Panic" THEN Panic ELSE from_utf8(s.val)
    IN  IF d.tag # "Ok" THEN d
        ELSE IF license_code = \h33 THEN d ELSE [tag |-> "Ok", val |-> <<>>]

\* if license_code == 0x33 { from_utf8(&rom_data[0x144..0x146])? } else { "" }
new_license_code(rom_data_, license_code) ==
    IF license_code = \h33
    THEN LET s == Slice(rom_data_, \h144, \h146)
         IN  IF s.tag = "Panic" THEN Panic ELSE from_utf8(s.val)
    ELSE [tag |-> "Ok", val |-> <<>>]

\* the byte at 0x149 taken whatever the cartridge type
ram_size_unforced(rom_data_, cartridge_type) == Index(rom_data_, \h149)

\* the test made on the MBC2+BATTERY code 0x06 instead of 0x05
ram_size_06(rom_data_, cartridge_type) ==
    IF cartridge_type # \h06 THEN Index(rom_data_, \h149) ELSE Val(0)

\* if cartridge_type != 0x05 { rom_data[0x149] } else { 0 }
ram_size(rom_data_, cartridge_type) ==
    IF cartridge_type # \h05 THEN Index(rom_data_, \h149) ELSE Val(0)

\* x << n on a u16
Shl16(x, n) == (x * (2 ^ n)) % 65536

\* x | y, bit by bit
RECURSIVE BitOr(_, _)
BitOr(x, y) ==
    IF x = 0 THEN y
    ELSE IF y = 0 THEN x
    ELSE (IF x % 2 = 1 \/ y % 2 = 1 THEN 1 ELSE 0) + 2 * BitOr(x \div 2, y \div 2)

\* the two bytes assembled low byte first
global_checksum_le(rom_data_) ==
    LET hi == Index(rom_data_, \h14E)
        lo == Index(rom_data_, \h14F)
    IN  IF hi.tag = "Panic" \/ lo.tag = "Panic" THEN Panic
        ELSE Val(BitOr(Shl16(lo.val, 8), hi.val))

\* ((rom_data[0x14E] as u16) << 8) | rom_data[0x14F] as u16
global_checksum(rom_data_) ==
    LET hi == Index(rom_data_, \h14E)
        lo == Index(rom_data_, \h14F)
    IN  IF hi.tag = "Panic" \/ lo.tag = "Panic" THEN Panic
        ELSE Val(BitOr(Shl16(hi.val, 8), lo.val))

\* the struct literal Ok(DMG { ... }): every field expression is evaluated,
\* and a panic in any of them unwinds out of DMG::new
Construct(rom_data_, cartridge_type, title_, new_license_code_) ==
    LET logo == nintendo_logo(rom_data_)
        sgb  == Index(rom_data_, \h146)
        ct   == Index(rom_data_, \h147)
        rom  == Index(rom_data_, \h148)
        ram  == ram_size(rom_data_, cartridge_type)
        dst  == Index(rom_data_, \h14A)
        lic  == Index(rom_data_, \h14B)
        mask == Index(rom_data_, \h14C)
        hck  == Index(rom_data_, \h14D)
        gck  == global_checksum(rom_data_)
    IN  IF \/ logo.tag = "Panic" \/ sgb.tag = "Panic" \/ ct.tag = "Panic"
           \/ rom.tag = "Panic" \/ ram.tag = "Panic" \/ dst.tag = "Panic"
           \/ lic.tag = "Panic" \/ mask.tag = "Panic" \/ hck.tag = "Panic"
           \/ gck.tag = "Panic"
        THEN Panic
        ELSE [tag |-> "Ok",
              val |-> [entry_point             |-> entry_point,
                       nintendo_logo           |-> logo.val,
                       title                   |-> title_,
                       sgb_flag                |-> sgb.val,
                       cartridge_type          |-> ct.val,
                       rom_size                |-> rom.val,
                       ram_size                |-> ram.val,
                       destination_code        |-> dst.val,
                       license_code            |-> lic.val,
                       mask_rom_version_number |-> mask.val,
                       header_checksum         |-> hck.val,
                       global_checksum         |-> gck.val,
                       new_license_code        |-> new_license_code_]]

\* DMG::new(rom_data): the reads in the order of the code; `?` returns the
\* Utf8Error at once
new(rom_data_) ==
    LET license_code == Index(rom_data_, \h14B)
    IN  IF license_code.tag = "Panic" THEN Panic
        ELSE LET cartridge_type == Index(rom_data_, \h147)
        IN  IF cartridge_type.tag = "Panic" THEN Panic
        ELSE LET t == title(rom_data_)
        IN  IF t.tag # "Ok" THEN t
        ELSE LET n == new_license_code(rom_data_, license_code.val)
        IN  IF n.tag # "Ok" THEN n
        ELSE Construct(rom_data_, cartridge_type.val, t.val, n.val)

(***************************************************************************)
(* The accessors.                                                          *)
(***************************************************************************)
get_entry_point(self) == self.entry_point

get_nintendo_logo(self) == self.nintendo_logo

get_title(self) == self.title

get_sgb_flag(self) == self.sgb_flag

get_cartridge_type(self) == self.cartridge_type

get_rom_size(self) == self.rom_size

get_ram_size(self) == self.ram_size

get_destination_code(self) == self.destination_code

get_license_code(self) == self.license_code

get_mask_romversion_number(self) == self.mask_rom_version_number

get_header_checksum(self) == self.header_checksum

get_global_checksum(self) == self.global_checksum

get_new_license_code(self) == self.new_license_code

(***************************************************************************)
(* The inputs.  The buffers start from the header the tests load           *)
(* (test_roms/header_only_test.gb, whose fields the tests assert) and      *)
(* vary its length and the bytes the decoder looks at.                     *)
(***************************************************************************)
nintendo_logo_reference ==
    <<
       \hCE, \hED, \h66, \h66, \hCC, \h0D, \h00, \h0B,
       \h03, \h73, \h00, \h83, \h00, \h0C, \h00, \h0D,
       \h00, \h08, \h11, \h1F, \h88, \h89, \h00, \h0E,
       \hDC, \hCC, \h6E, \hE6, \hDD, \hDD, \hD9, \h99,
       \hBB, \hBB, \h67, \h63, \h6E, \h0E, \hEC, \hCC,
       \hDD, \hDC, \h99, \h9F, \hBB, \hB9, \h33
    >>

\* "GBLOADERTEST1234"
TestTitle ==
    <<
       \h47, \h42, \h4C, \h4F, \h41, \h44, \h45, \h52,
       \h54, \h45, \h53, \h54, \h31, \h32, \h33, \h34
    >>

\* byte i (from 0) of the test ROM
TestByte(i) ==
    IF i >= \h104 /\ i < \h133 THEN nintendo_logo_reference[i - \h104 + 1]
    ELSE IF i >= \h134 /\ i < \h144 THEN TestTitle[i - \h134 + 1]
    ELSE CASE i = \h144 -> \h30
           [] i = \h145 -> \h31
           [] i = \h146 -> \h03
           [] i = \h147 -> \h01
           [] i = \h148 -> \h02
           [] i = \h149 -> \h03
           [] i = \h14A -> \h01
           [] i = \h14B -> \h33
           [] i = \h14C -> \h00
           [] i = \h14D -> \hFF
           [] OTHER -> \h00

\* the test ROM cut or zero-extended to len bytes, with the bytes of ov
\* (a function from offsets to bytes) written over it
MkRom(len, ov) ==
    [i \in 1..len |-> IF (i - 1) \in DOMAIN ov THEN ov[i - 1] ELSE TestByte(i - 1)]

\* writes the sequence bytes at offset off
At(off, bytes) == [i \in off..(off + Len(bytes) - 1) |-> bytes[i - off + 1]]

Lens == {0, \h134, \h146} \cup ((\h150 - MaxShort)..(\h150 + MaxExtra))

\* the last four bytes of the title, 0x140-0x143
TitleTails ==
    { <<\h31, \h32, \h33, \h34>>,      \* ASCII
      <<\h00, \h00, \h00, \h00>>,      \* NUL padding
      <<\h31, \h32, \hC3, \hA9>>,      \* a two-byte character
      <<\h31, \hE2, \h82, \hAC>>,      \* a three-byte character
      <<\hF0, \h9F, \h98, \h80>>,      \* a four-byte character
      <<\h31, \h32, \h33, \hC3>>,      \* a character cut off by the end of the title
      <<\h31, \h32, \h33, \h80>>,      \* a continuation byte alone
      <<\h31, \h32, \hC0, \h80>>,      \* an overlong encoding
      <<\h31, \hED, \hA0, \h80>>,      \* a surrogate
      <<\hF4, \h90, \h80, \h80>>,      \* above U+10FFFF
      <<\h31, \h32, \h33, \hFF>> }     \* never a UTF-8 byte

\* the two bytes at 0x144-0x145
LicensePairs ==
    { <<\h30, \h31>>, <<\h00, \h00>>, <<\hC3, \hA9>>, <<\hA9, \h31>>,
      <<\h41, \hC3>>, <<\hFF, \hFF>> }

SampleBytes == {\h00, \h01, \h80, \hFF}

InitText ==
    \E len \in Lens, t \in TitleTails, p \in LicensePairs, lc \in {\h33, \h00, \h32} :
        rom_data = MkRom(len, At(\h140, t) @@ At(\h144, p) @@ At(\h14B, <<lc>>))

InitFields ==
    \E ct \in {\h00, \h01, \h05, \h06}, ram \in {\h00, \h03, \hFF},
       hi \in SampleBytes, lo \in SampleBytes,
       l0 \in {\hCE, \h00}, l48 \in {\h00, \h3E}, lc \in {\h33, \h01} :
        rom_data = MkRom(\h150, At(\h147, <<ct>>) @@ At(\h149, <<ram>>)
                                @@ At(\h14E, <<hi, lo>>) @@ At(\h104, <<l0>>)
                                @@ At(\h133, <<l48>>) @@ At(\h14B, <<lc>>))

\* the checksum bytes at 0x14E-0x14F: every value of one byte against these
\* values of the other
ChecksumBytes == {\h00, \h01, \h55, \h80, \hFF}

InitChecksum ==
    \E hi \in 0..255, lo \in 0..255 :
        /\ hi \in ChecksumBytes \/ lo \in ChecksumBytes
        /\ rom_data = MkRom(\h150, At(\h14E, <<hi, lo>>))

InitBytes ==
    \E e \in {\h00, \hC3}, sgb \in {\h03, \h00}, rom \in {\h02, \h08},
       dst \in {\h01, \h00}, mask \in {\h00, \h07}, hck \in {\hFF, \h5A} :
        rom_data = MkRom(\h150, At(\h100, <<e, e, e, e>>) @@ At(\h146, <<sgb>>)
                                @@ At(\h148, <<rom>>) @@ At(\h14A, <<dst>>)
                                @@ At(\h14C, <<mask, hck>>))

NoResult == [tag |-> "None"]

NoReturn == [f |-> "none"]

Init ==
    /\ InitText \/ InitFields \/ InitChecksum \/ InitBytes
    /\ result = NoResult
    /\ ret = NoReturn

(***************************************************************************)
(* The operations.                                                         *)
(***************************************************************************)
New ==
    /\ result = NoResult
    /\ result' = new(rom_data)
    /\ UNCHANGED <<rom_data, ret>>

Returns(f, v) ==
    /\ result.tag = "Ok"
    /\ ret' = [f |-> f, v |-> v]
    /\ UNCHANGED <<rom_data, result>>

GetEntryPoint == Returns("get_entry_point", get_entry_point(result.val))

GetNintendoLogo == Returns("get_nintendo_logo", get_nintendo_logo(result.val))

GetTitle == Returns("get_title", get_title(result.val))

GetSgbFlag == Returns("get_sgb_flag", get_sgb_flag(result.val))

GetCartridgeType == Returns("get_cartridge_type", get_cartridge_type(result.val))

GetRomSize == Returns("get_rom_size", get_rom_size(result.val))

GetRamSize == Returns("get_ram_size", get_ram_size(result.val))

GetDestinationCode == Returns("get_destination_code", get_destination_code(result.val))

GetLicenseCode == Returns("get_license_code", get_license_code(result.val))

GetMaskRomversionNumber ==
    Returns("get_mask_romversion_number", get_mask_romversion_number(result.val))

GetHeaderChecksum == Returns("get_header_checksum", get_header_checksum(result.val))

GetGlobalChecksum == Returns("get_global_checksum", get_global_checksum(result.val))

GetNewLicenseCode == Returns("get_new_license_code", get_new_license_code(result.val))

Next ==
    \/ New
    \/ GetEntryPoint
    \/ GetNintendoLogo
    \/ GetTitle
    \/ GetSgbFlag
    \/ GetCartridgeType
    \/ GetRomSize
    \/ GetRamSize
    \/ GetDestinationCode
    \/ GetLicenseCode
    \/ GetMaskRomversionNumber
    \/ GetHeaderChecksum
    \/ GetGlobalChecksum
    \/ GetNewLicenseCode

Spec == Init /\ [][Next]_vars

(***************************************************************************)
(* Vocabulary of the properties.                                           *)
(***************************************************************************)
\* DMG::new has run
Done == result.tag # "None"

\* the buffer byte at offset i (from 0)
Byte(i) == rom_data[i + 1]

\* the buffer bytes at offsets a .. b - 1
Bytes(a, b) == [i \in 1..(b - a) |-> rom_data[a + i]]

LongEnough == Len(rom_data) >= \h150

\* Well-formed UTF-8 as RFC 3629 defines it, by the scalar value each
\* sequence encodes: the shortest encoding of a value up to U+10FFFF that is
\* no surrogate.
RECURSIVE WellFormedFrom(_, _)
WellFormedFrom(v, i) ==
    IF i > Len(v) THEN TRUE
    ELSE LET b0 == v[i]
             n  == IF b0 < 128 THEN 1
                   ELSE IF b0 >= 192 /\ b0 < 224 THEN 2
                   ELSE IF b0 >= 224 /\ b0 < 240 THEN 3
                   ELSE IF b0 >= 240 /\ b0 < 248 THEN 4
                   ELSE 0
             tail(k) == v[i + k] - 128
             cp == CASE n = 1 -> b0
                     [] n = 2 -> (b0 - 192) * 64 + tail(1)
                     [] n = 3 -> (b0 - 224) * 4096 + tail(1) * 64 + tail(2)
                     [] n = 4 -> (b0 - 240) * 262144 + tail(1) * 4096
                                 + tail(2) * 64 + tail(3)
             least == CASE n = 1 -> 0 [] n = 2 -> 128 [] n = 3 -> 2048 [] n = 4 -> 65536
         IN  /\ n > 0
             /\ i + n - 1 <= Len(v)
             /\ \A k \in 1..(n - 1) : v[i + k] >= 128 /\ v[i + k] < 192
             /\ cp >= least
             /\ cp <= 1114111
             /\ ~(cp >= 55296 /\ cp <= 57343)
             /\ WellFormedFrom(v, i + n)

WellFormed(v) == WellFormedFrom(v, 1)

\* the text ranges DMG::new decodes are valid text (buffers of >= 0x146 bytes)
TextValid ==
    /\ WellFormed(Bytes(\h134, \h144))
    /\ Byte(\h14B) = \h33 => WellFormed(Bytes(\h144, \h146))

Header == result.val

(***************************************************************************)
(* C1.  A buffer of at least 0x150 bytes whose title and, when the byte at *)
(* 0x14B is 0x33, whose bytes 0x144-0x145 are valid UTF-8 decodes to Ok,   *)
(* and the header's entry_point is 0x0100 whatever the buffer holds.       *)
(***************************************************************************)
C1_DecodeSucceeds ==
    /\ (Done /\ LongEnough /\ TextValid) => result.tag = "Ok"
    /\ result.tag = "Ok" => Header.entry_point = 256
    /\ ret.f = "get_entry_point" => ret.v = 256

C1_Witness ==
    /\ result.tag = "Ok"
    /\ ret.f = "get_entry_point"
    /\ Bytes(\h100, \h104) = <<\hC3, \hC3, \hC3, \hC3>>

(***************************************************************************)
(* C2.  A buffer of at least 0x150 bytes whose title is not valid text, or *)
(* whose byte at 0x14B is 0x33 and whose bytes 0x144-0x145 are not valid   *)
(* text, yields the Utf8Error and no header; the Utf8Error is the only     *)
(* error DMG::new returns, and it returns it for no other reason.          *)
(***************************************************************************)
C2_InvalidEncoding ==
    /\ (Done /\ LongEnough /\ ~TextValid) => (result = Utf8Error /\ DOMAIN result = {"tag"})
    /\ Done => result.tag \in {"Ok", "Err", "Panic"}
    /\ result.tag = "Err" => (result = Utf8Error /\ ~TextValid)

C2_Witness ==
    /\ result.tag = "Err"
    /\ LongEnough
    /\ WellFormed(Bytes(\h134, \h144))
    /\ Byte(\h14B) = \h33
    /\ ~WellFormed(Bytes(\h144, \h146))

(***************************************************************************)
(* C3.  In a decoded header new_license_code is empty exactly when the     *)
(* byte at 0x14B is not 0x33, and when it is 0x33 new_license_code is the  *)
(* two bytes at 0x144-0x145 as text.                                       *)
(***************************************************************************)
C3_NewLicenseCode ==
    result.tag = "Ok" =>
        /\ Header.new_license_code = <<>> <=> Byte(\h14B) # \h33
        /\ Byte(\h14B) = \h33 =>
              /\ Header.new_license_code = <<Byte(\h144), Byte(\h145)>>
              /\ WellFormed(Header.new_license_code)
        /\ ret.f = "get_new_license_code" => ret.v = Header.new_license_code

C3_Witness ==
    /\ result.tag = "Ok"
    /\ Byte(\h14B) = \h33
    /\ ret.f = "get_new_license_code"
    /\ ret.v = <<\hC3, \hA9>>

(***************************************************************************)
(* C4.  In a decoded header ram_size is 0 when the byte at 0x147 is 0x05,  *)
(* whatever the byte at 0x149, and is the byte at 0x149 otherwise; the     *)
(* stored cartridge_type is the byte at 0x147.                             *)
(***************************************************************************)
C4_RamSize ==
    result.tag = "Ok" =>
        /\ Byte(\h147) = \h05 => Header.ram_size = 0
        /\ Byte(\h147) # \h05 => Header.ram_size = Byte(\h149)
        /\ Header.cartridge_type = Byte(\h147)
        /\ ret.f = "get_ram_size" => ret.v = Header.ram_size

C4_Witness ==
    /\ result.tag = "Ok"
    /\ Byte(\h147) = \h05
    /\ Byte(\h149) = \hFF
    /\ ret.f = "get_ram_size"
    /\ ret.v = 0

(***************************************************************************)
(* C5.  As claimed: in a decoded header ram_size is 0 if and only if       *)
(* cartridge_type is 0x05.                                                 *)
(***************************************************************************)
C5_RamSizeZeroIffMbc2 ==
    result.tag = "Ok" => (Header.ram_size = 0 <=> Header.cartridge_type = \h05)

(***************************************************************************)
(* C5, amended.  In a decoded header ram_size is 0 if and only if          *)
(* cartridge_type is 0x05 or the byte at 0x149 is 0x00.                    *)
(***************************************************************************)
C5_RamSizeZeroIffMbc2OrZeroByte ==
    result.tag = "Ok" =>
        (Header.ram_size = 0 <=> (Header.cartridge_type = \h05 \/ Byte(\h149) = \h00))

C5_Witness ==
    /\ result.tag = "Ok"
    /\ Header.cartridge_type = \h05
    /\ Byte(\h149) # \h00
    /\ Header.ram_size = 0

(***************************************************************************)
(* C6.  In a decoded header global_checksum is byte 0x14E * 256 + byte     *)
(* 0x14F, a 16-bit value: 0x14E is the high byte and 0x14F the low byte.   *)
(***************************************************************************)
C6_GlobalChecksum ==
    result.tag = "Ok" =>
        /\ Header.global_checksum = Byte(\h14E) * 256 + Byte(\h14F)
        /\ Header.global_checksum \in 0..65535
        /\ ret.f = "get_global_checksum" => ret.v = Header.global_checksum

C6_Witness ==
    /\ result.tag = "Ok"
    /\ Byte(\h14E) = \hFF
    /\ Byte(\h14F) = \h01
    /\ ret.f = "get_global_checksum"
    /\ ret.v = 65281

C8_CopiedFields ==
    result.tag = "Ok" =>
        /\ Header.sgb_flag = Byte(\h146)
        /\ Header.cartridge_type = Byte(\h147)
        /\ Header.rom_size = Byte(\h148)
        /\ Header.destination_code = Byte(\h14A)
        /\ Header.license_code = Byte(\h14B)
        /\ Header.mask_rom_version_number = Byte(\h14C)
        /\ Header.header_checksum = Byte(\h14D)
        /\ Len(Header.title) = 16
        /\ \A i \in 0..15 : Header.title[i + 1] = Byte(\h134 + i)
        /\ ret.f = "get_sgb_flag" => ret.v = Byte(\h146)
        /\ ret.f = "get_cartridge_type" => ret.v = Byte(\h147)
        /\ ret.f = "get_rom_size" => ret.v = Byte(\h148)
        /\ ret.f = "get_destination_code" => ret.v = Byte(\h14A)
        /\ ret.f = "get_license_code" => ret.v = Byte(\h14B)
        /\ ret.f = "get_mask_romversion_number" => ret.v = Byte(\h14C)
        /\ ret.f = "get_header_checksum" => ret.v = Byte(\h14D)
        /\ ret.f = "get_title" => ret.v = Bytes(\h134, \h144)

C8_Witness ==
    /\ result.tag = "Ok"
    /\ Header.cartridge_type = \h05
    /\ Header.license_code = \h33
    /\ ret.f = "get_title"
    /\ Len(ret.v) = 16

(***************************************************************************)
(* C9.  As claimed: a buffer shorter than 0x150 bytes makes DMG::new       *)
(* panic, and a buffer of at least 0x150 bytes never does.                 *)
(***************************************************************************)
C9_ShortBufferPanics ==
    Done =>
        /\ ~LongEnough => result.tag = "Panic"
        /\ LongEnough => result.tag # "Panic"

(***************************************************************************)
(* C9, amended.  A buffer shorter than 0x150 bytes never yields a header:  *)
(* DMG::new panics, except that a buffer of 0x14C to 0x14F bytes whose     *)
(* title, or whose bytes 0x144-0x145 when the byte at 0x14B is 0x33, are   *)
(* not valid text yields the Utf8Error.  A buffer of at least 0x150 bytes  *)
(* never makes DMG::new panic.                                             *)
(***************************************************************************)
C9_ShortBufferNeverDecodes ==
    Done =>
        /\ ~LongEnough => result.tag # "Ok"
        /\ (~LongEnough /\ Len(rom_data) >= \h14C) =>
              (result.tag = IF TextValid THEN "Panic" ELSE "Err")
        /\ Len(rom_data) < \h14C => result.tag = "Panic"
        /\ LongEnough => result.tag # "Panic"

C9_Witness ==
    /\ result.tag = "Err"
    /\ Len(rom_data) = \h14F

(***************************************************************************)
(* C10.  When the byte at 0x14B is not 0x33 the bytes 0x144-0x145 are not  *)
(* decoded: a buffer of at least 0x150 bytes gives the same outcome as the *)
(* buffer that differs from it in those two bytes only, and bytes there    *)
(* that are not valid text make no decoding fail.                          *)
(***************************************************************************)
\* the buffer with bytes a, b written at 0x144-0x145
WithLicensePair(a, b) == [rom_data EXCEPT ![\h145] = a, ![\h146] = b]

SameOutcome(r1, r2) == r1.tag = r2.tag /\ (r1.tag = "Ok" => r1.val = r2.val)

C10_ShortCircuit ==
    (Done /\ LongEnough /\ Byte(\h14B) # \h33) =>
        /\ \A a, b \in {\h00, \h30, \h80, \hA9, \hC3, \hFF} :
              SameOutcome(new(WithLicensePair(a, b)), result)
        /\ WellFormed(Bytes(\h134, \h144)) => result.tag = "Ok"

C10_Witness ==
    /\ result.tag = "Ok"
    /\ Byte(\h14B) # \h33
    /\ ~WellFormed(Bytes(\h144, \h146))

====
